---- MODULE Spec2Model ----
(***************************************************************************)
(* State-machine model of the conversational-analytics backend:            *)
(*   - GeminiService   (backend/services/gemini.js, lines 1-147)           *)
(*   - the /chat route (backend/services/gemini.js, lines 150-248)         *)
(*   - BigQueryService (backend/services/bigquery.js)                      *)
(*                                                                         *)
(* JavaScript strings that the code inspects (trim, replace, includes,     *)
(* toUpperCase, endsWith, template interpolation) are sequences of         *)
(* one-character strings.  Strings that are only passed around (error      *)
(* texts, region names) are TLA+ strings.  The backquote character is     *)
(* the one-character string written BackQuote.                             *)
(***************************************************************************)
EXTENDS Integers, Sequences, FiniteSets, TLC

(***************************************************************************)
(* Bounds of the model.                                                    *)
(***************************************************************************)
\* number of fragments concatenated into one raw answer of the language model
MaxFrags == 2
\* number of fragments concatenated into one input of the normalisation
MaxNormFrags == 4
\* number of tables the dataset may list
MaxTables == 1
\* number of rows a query may return
MaxRows == 2
\* number of request slots the host may serve at the same time
NumSlots == 2
\* number of tables whose metadata calls may be in flight together
MaxFanout == 2

(***************************************************************************)
(* Characters and strings.                                                 *)
(***************************************************************************)
LowerCase == <<"a","b","c","d","e","f","g","h","i","j","k","l","m",
               "n","o","p","q","r","s","t","u","v","w","x","y","z">>
UpperCase == <<"A","B","C","D","E","F","G","H","I","J","K","L","M",
               "N","O","P","Q","R","S","T","U","V","W","X","Y","Z">>

\* the characters String.prototype.trim removes (those the model uses)
WhiteSpace == {" ", "\n", "\t", "\r"}

ToUpperChar(c) ==
  IF \E i \in 1..Len(LowerCase) : LowerCase[i] = c
  THEN UpperCase[CHOOSE i \in 1..Len(LowerCase) : LowerCase[i] = c]
  ELSE c

\* String.prototype.toUpperCase
ToUpperCase(s) == [i \in 1..Len(s) |-> ToUpperChar(s[i])]

RECURSIVE TrimStart(_)
TrimStart(s) ==
  IF s # <<>> /\ Head(s) \in WhiteSpace THEN TrimStart(Tail(s)) ELSE s

RECURSIVE TrimEnd(_)
TrimEnd(s) ==
  IF s # <<>> /\ s[Len(s)] \in WhiteSpace
  THEN TrimEnd(SubSeq(s, 1, Len(s) - 1))
  ELSE s

\* String.prototype.trim
Trim(s) == TrimEnd(TrimStart(s))

\* pat occurs in s starting at index i
MatchAt(s, pat, i) ==
  /\ i + Len(pat) - 1 <= Len(s)
  /\ \A k \in 1..Len(pat) : s[i + k - 1] = pat[k]

\* String.prototype.includes
Includes(s, pat) == \E i \in 1..(Len(s) + 1) : MatchAt(s, pat, i)

\* String.prototype.endsWith
EndsWith(s, pat) ==
  Len(pat) <= Len(s) /\ MatchAt(s, pat, Len(s) - Len(pat) + 1)

\* s.replace(/<pat>\n?/g, ''): scan left to right, drop every occurrence of
\* pat together with one newline directly after it
RECURSIVE ReplaceAllFrom(_, _, _)
ReplaceAllFrom(s, pat, i) ==
  IF i > Len(s) THEN <<>>
  ELSE IF MatchAt(s, pat, i)
       THEN LET j == i + Len(pat)
            IN  ReplaceAllFrom(s, pat, IF j <= Len(s) /\ s[j] = "\n" THEN j + 1 ELSE j)
       ELSE <<s[i]>> \o ReplaceAllFrom(s, pat, i + 1)

\* mutant: replace without the g flag drops the first occurrence only
ReplaceFirst(s, pat) ==
  IF Includes(s, pat)
  THEN LET i == CHOOSE k \in 1..Len(s) :
                   MatchAt(s, pat, k) /\ \A m \in 1..(k - 1) : ~MatchAt(s, pat, m)
           j == i + Len(pat)
           e == IF j <= Len(s) /\ s[j] = "\n" THEN j + 1 ELSE j
       IN  SubSeq(s, 1, i - 1) \o SubSeq(s, e, Len(s))
  ELSE s

ReplaceAll(s, pat) == ReplaceAllFrom(s, pat, 1)

\* the backquote character U+0060 (the string syntax of TLA+ has no backquote)
BackQuote == "BACKQUOTE"

FenceSql == <<BackQuote, BackQuote, BackQuote, "s", "q", "l">>
Fence == <<BackQuote, BackQuote, BackQuote>>

\* mutant: both replacements without the g flag
CleanSqlFirstOnly(text) == Trim(ReplaceFirst(ReplaceFirst(Trim(text), FenceSql), Fence))

\* gemini.js 98-101: trim, strip the sql fence markers, strip the bare
\* fence markers, trim
CleanSql(text) == Trim(ReplaceAll(ReplaceAll(Trim(text), FenceSql), Fence))

\* concatenation of a sequence of strings
RECURSIVE Concat(_)
Concat(parts) == IF parts = <<>> THEN <<>> ELSE Head(parts) \o Concat(Tail(parts))

\* all sequences of at most n elements of S
SeqsUpTo(S, n) == UNION {[1..k -> S] : k \in 0..n}

\* Number -> decimal string, as template interpolation prints it
RECURSIVE DecimalString(_)
DecimalString(n) ==
  LET digits == <<"0","1","2","3","4","5","6","7","8","9">>
  IN  IF n < 10 THEN <<digits[n + 1]>>
      ELSE DecimalString(n \div 10) \o <<digits[(n % 10) + 1]>>

(***************************************************************************)
(* JavaScript values of the request body's message property.               *)
(***************************************************************************)
JsUndefined == [type |-> "undefined"]
JsNumber(n) == [type |-> "number", value |-> n]
JsString(s) == [type |-> "string", value |-> s]

\* what a client may put into req.body.message
Messages ==
  { JsUndefined,
    JsNumber(42),
    JsString(<<>>),
    JsString(<<" ", "\n">>),
    JsString(<<" ", "h", "i", " ">>) }

\* !message
Falsy(m) ==
  \/ m.type = "undefined"
  \/ m.type = "number" /\ m.value = 0
  \/ m.type = "string" /\ m.value = <<>>

\* mutant: the guard without the trim test
MessageRejectedNoTrim(m) == Falsy(m) \/ m.type # "string"

\* gemini.js 164: the guard of the 400 'Message is required' response
MessageRejected(m) ==
  \/ Falsy(m)
  \/ m.type # "string"
  \/ Len(Trim(m.value)) = 0

(***************************************************************************)
(* Environment and the answers of the two external services.               *)
(***************************************************************************)
\* an unset (or empty) environment variable; both are falsy in the code
Unset == ""

\* process.env as the services read it
Environments ==
  { [BIGQUERY_PROJECT_ID |-> "proj", BIGQUERY_DATASET |-> "shop",
     BIGQUERY_LOCATION |-> Unset, GEMINI_API_KEY |-> "key"],
    [BIGQUERY_PROJECT_ID |-> "proj", BIGQUERY_DATASET |-> "shop",
     BIGQUERY_LOCATION |-> "EU", GEMINI_API_KEY |-> "key"],
    [BIGQUERY_PROJECT_ID |-> Unset, BIGQUERY_DATASET |-> "shop",
     BIGQUERY_LOCATION |-> Unset, GEMINI_API_KEY |-> "key"],
    [BIGQUERY_PROJECT_ID |-> "proj", BIGQUERY_DATASET |-> Unset,
     BIGQUERY_LOCATION |-> Unset, GEMINI_API_KEY |-> "key"],
    [BIGQUERY_PROJECT_ID |-> "proj", BIGQUERY_DATASET |-> "shop",
     BIGQUERY_LOCATION |-> Unset, GEMINI_API_KEY |-> Unset] }

\* the null of this.datasetId and this.datasetLocation
Null == "<null>"

\* messages of the errors a remote call may reject with
RemoteErrors == {"quota exceeded"}

\* fragments the raw text of the language model is put together from
FragSelect == <<"\n","S","e","l","e","c","t"," ","1"," ">>
FragDrop == <<"D","R","O","P"," ","T","A","B","L","E"," ","x",";"," ">>
FragSelec == <<"S","E","L","E","C">>
FragT == <<"T">>
FragFenceSql == FenceSql \o <<"\n">>

RawFragments ==
  { FragSelect, FragDrop, FragSelec, FragT,
    FragFenceSql, Fence }

\* every text response.text() may return for the SQL prompt
RawTexts == {Concat(fs) : fs \in SeqsUpTo(RawFragments, MaxFrags)}

\* every text response.text() may return for the explanation prompt
ExplainTexts ==
  { <<"o","k",".">>, <<" ","o","k",".",".","\n">>, <<>> }

\* tables are named by numbers; dataset.getTables answers any list of
\* distinct tables
TableLists ==
  {ts \in SeqsUpTo(1..MaxTables, MaxTables) :
     \A i, j \in 1..Len(ts) : i # j => ts[i] # ts[j]}

\* table.getMetadata answers, per table
TableMetadata ==
  { [schema |-> [fields |-> <<[name |-> "id", type |-> "INT64"]>>],
     description |-> Unset] }

\* dataset.getMetadata answers: a region, or no location property
DatasetLocations == {"EU", Unset}

\* job.getQueryResults answers: any number of rows up to MaxRows, all different
RowSets == {[i \in 1..k |-> [cnt |-> 41 + i]] : k \in 0..MaxRows}

Slots == 1..NumSlots

(***************************************************************************)
(* State.                                                                  *)
(***************************************************************************)
VARIABLES
  env,            \* process.env
  bq,             \* the BigQueryService singleton: _initialized, datasetId, datasetLocation
  gem,            \* the GeminiService singleton: _initialized
  metadataCalls,  \* dataset.getMetadata calls made by the process
  pc,             \* per request: the await the handler is suspended at
  message,        \* per request: req.body.message
  tableSchemas,   \* per request: the handler's tableSchemas
  fanout,         \* per request: the Promise.all of getAllTableSchemas
  sqlQuery,       \* per request: the handler's sqlQuery
  location,       \* per request: executeQuery's location
  results,        \* per request: the handler's results
  responses,      \* per request: the responses sent on res
  calls,          \* per request: the calls made and their outcomes, in order
  nInput,         \* normalisation check: the raw text
  nPrev,          \* normalisation check: the text before the last application
  nOutput,        \* normalisation check: the text after the last application
  nStage          \* normalisation check: number of applications so far

svcVars == <<env, bq, gem, metadataCalls>>
reqVars == <<pc, message, tableSchemas, fanout, sqlQuery, location, results,
             responses, calls>>
normVars == <<nInput, nPrev, nOutput, nStage>>
vars == <<svcVars, reqVars, normVars>>

NoFanout == [tables |-> <<>>, got |-> <<>>]

\* bigquery.js 7-12 and gemini.js 7-11: the constructors
InitServices ==
  /\ bq = [_initialized |-> FALSE, datasetId |-> Null, datasetLocation |-> Null]
  /\ gem = [_initialized |-> FALSE]
  /\ metadataCalls = 0

\* no request has arrived yet
InitRequests ==
  /\ pc = [r \in Slots |-> "idle"]
  /\ message = [r \in Slots |-> JsUndefined]
  /\ tableSchemas = [r \in Slots |-> <<>>]
  /\ fanout = [r \in Slots |-> NoFanout]
  /\ sqlQuery = [r \in Slots |-> <<>>]
  /\ location = [r \in Slots |-> Null]
  /\ results = [r \in Slots |-> <<>>]
  /\ responses = [r \in Slots |-> <<>>]
  /\ calls = [r \in Slots |-> <<>>]

InitNorm ==
  /\ nInput = <<>>
  /\ nPrev = <<>>
  /\ nOutput = <<>>
  /\ nStage = 0

Init ==
  /\ env \in Environments
  /\ InitServices
  /\ InitRequests
  /\ InitNorm

(***************************************************************************)
(* The lazy initialisation of the two service singletons.                  *)
(***************************************************************************)
\* bigquery.js 17-43: BigQueryService._initialize; the outcome and the
\* singleton afterwards
BqInitialize(svc, e) ==
  IF svc._initialized
  THEN [threw |-> FALSE, error |-> "", svc |-> svc]
  ELSE IF e.BIGQUERY_PROJECT_ID = Unset
  THEN [threw |-> TRUE, error |-> "BIGQUERY_PROJECT_ID environment variable is not set", svc |-> svc]
  ELSE IF e.BIGQUERY_DATASET = Unset
  THEN [threw |-> TRUE, error |-> "BIGQUERY_DATASET environment variable is not set", svc |-> svc]
  ELSE [threw |-> FALSE, error |-> "",
        svc |-> [_initialized |-> TRUE, datasetId |-> e.BIGQUERY_DATASET,
                 datasetLocation |-> IF e.BIGQUERY_LOCATION # Unset
                                     THEN e.BIGQUERY_LOCATION ELSE Null]]

\* gemini.js 16-36: GeminiService._initialize
GemInitialize(svc, e) ==
  IF svc._initialized
  THEN [threw |-> FALSE, error |-> "", svc |-> svc]
  ELSE IF e.GEMINI_API_KEY = Unset
  THEN [threw |-> TRUE, error |-> "GEMINI_API_KEY environment variable is not set", svc |-> svc]
  ELSE [threw |-> FALSE, error |-> "", svc |-> [_initialized |-> TRUE]]

(***************************************************************************)
(* The call log and the responses.                                         *)
(***************************************************************************)
Call(op) == [op |-> op, ev |-> "call"]
CallWith(op, args) == [op |-> op, ev |-> "call", args |-> args]
Ok(op) == [op |-> op, ev |-> "ok"]
OkWith(op, value) == [op |-> op, ev |-> "ok", value |-> value]
Fail(op) == [op |-> op, ev |-> "fail"]

\* res.status(status).json(body); res.json(body) sends status 200
Response(status, body) == [status |-> status, body |-> body]

\* mutant: the response is sent a second time
FinishTwice(r, log, resp) ==
  /\ pc' = [pc EXCEPT ![r] = "done"]
  /\ calls' = [calls EXCEPT ![r] = @ \o log]
  /\ responses' = [responses EXCEPT ![r] = @ \o <<resp, resp>>]

\* the handler returns after sending resp
Finish(r, log, resp) ==
  /\ pc' = [pc EXCEPT ![r] = "done"]
  /\ calls' = [calls EXCEPT ![r] = @ \o log]
  /\ responses' = [responses EXCEPT ![r] = Append(@, resp)]

\* gemini.js 165-167
InvalidInputResponse ==
  Response(400, [error |-> "Message is required and must be a non-empty string"])

\* gemini.js 185-188
GenerationFailedResponse(details) ==
  Response(500, [error |-> "Failed to generate SQL query", details |-> details])

\* gemini.js 193-195
EmptyGenerationResponse ==
  Response(500, [error |-> "Generated SQL query is empty"])

\* gemini.js 203-206
UnsafeQueryResponse(sql) ==
  Response(400, [error |-> "Only SELECT queries are allowed for security reasons",
                 generatedQuery |-> sql])

\* mutant: the failed SQL is left out of the payload
ExecutionFailedNoQuery(details, sql) ==
  Response(500, [error |-> "Failed to execute query on BigQuery", details |-> details])

\* gemini.js 214-218
ExecutionFailedResponse(details, sql) ==
  Response(500, [error |-> "Failed to execute query on BigQuery", details |-> details,
                 generatedQuery |-> sql])

\* mutant: the count is taken from the rows shown, at most one
SuccessFirstRow(msg, sql, explanation, rows) ==
  Response(200, [success |-> TRUE, userQuery |-> msg.value, sqlQuery |-> sql,
                 explanation |-> explanation, results |-> rows,
                 resultCount |-> IF rows = <<>> THEN 0 ELSE 1])

\* gemini.js 231-238
SuccessResponse(msg, sql, explanation, rows) ==
  Response(200, [success |-> TRUE, userQuery |-> msg.value, sqlQuery |-> sql,
                 explanation |-> explanation, results |-> rows,
                 resultCount |-> Len(rows)])

\* gemini.js 142: what explainResults returns when its try block throws
ExplainCaught ==
  <<"Q","u","e","r","y"," ","e","x","e","c","u","t","e","d"," ",
    "s","u","c","c","e","s","s","f","u","l","l","y",".">>

\* gemini.js 227: the handler's explanation when explainResults rejects
ExplainFallback(rows) ==
  <<"Q","u","e","r","y"," ","e","x","e","c","u","t","e","d"," ",
    "s","u","c","c","e","s","s","f","u","l","l","y","."," ","F","o","u","n","d"," ">>
  \o DecimalString(Len(rows))
  \o <<" ","r","e","s","u","l","t","(","s",")",".">>

\* gemini.js 132-139: trim the text, drop one trailing period
ExplainClean(text) ==
  LET t == Trim(text)
  IN  IF EndsWith(t, <<".">>) THEN SubSeq(t, 1, Len(t) - 1) ELSE t

(***************************************************************************)
(* The safety gate.                                                        *)
(***************************************************************************)
Select == <<"S","E","L","E","C","T">>

\* gemini.js 192: !sqlQuery || sqlQuery.trim().length === 0
IsEmptySql(sql) == sql = <<>> \/ Len(Trim(sql)) = 0

\* gemini.js 200-202: sqlQuery.trim().toUpperCase().includes('SELECT')
IsSelectQuery(sql) == Includes(ToUpperCase(Trim(sql)), Select)

\* mutant: the SELECT test with its negation lost
GateInverted(sql) ==
  IF IsEmptySql(sql) THEN "empty"
  ELSE IF IsSelectQuery(sql) THEN "unsafe"
  ELSE "execute"

\* mutant: the SELECT test placed before the empty test
GateSelectFirst(sql) ==
  IF ~IsSelectQuery(sql) THEN "unsafe"
  ELSE IF IsEmptySql(sql) THEN "empty"
  ELSE "execute"

\* gemini.js 191-207: the two checks between generation and execution
Gate(sql) ==
  IF IsEmptySql(sql) THEN "empty"
  ELSE IF ~IsSelectQuery(sql) THEN "unsafe"
  ELSE "execute"

\* truthiness of this.datasetLocation and of metadata.location
HasLocation(loc) == loc # Null /\ loc # Unset

(***************************************************************************)
(* The /chat handler, cut at its awaits.  Each fragment below is the code   *)
(* the handler runs from one point up to the next remote call or response. *)
(***************************************************************************)
\* gemini.js 179-189 with gemini.js 45-96 and bigquery.js 153-156: from the
\* end of the schema step to the generateContent call of generateSQL
ContinueGenerate(r, msg, schemas, log, svc) ==
  LET d == BqInitialize(svc, env)
      log1 == log \o <<Call("getDatasetId")>>
      g == GemInitialize(gem, env)
      log2 == log1 \o <<Ok("getDatasetId"),
                        CallWith("generateSQL",
                                 [userQuery |-> msg.value, tableSchemas |-> schemas,
                                  datasetId |-> d.svc.datasetId])>>
  IN  /\ tableSchemas' = [tableSchemas EXCEPT ![r] = schemas]
      /\ bq' = d.svc
      /\ IF d.threw
         THEN /\ Finish(r, log1 \o <<Fail("getDatasetId")>>,
                        GenerationFailedResponse(<<d.error>>))
              /\ UNCHANGED gem
         ELSE IF g.threw
         THEN /\ Finish(r, log2 \o <<Fail("generateSQL")>>,
                        GenerationFailedResponse(<<g.error>>))
              /\ UNCHANGED gem
         ELSE /\ gem' = g.svc
              /\ pc' = [pc EXCEPT ![r] = "generateSQL"]
              /\ calls' = [calls EXCEPT ![r] = @ \o log2 \o <<Call("model.generateContent")>>]
              /\ UNCHANGED responses

\* gemini.js 191-212 with bigquery.js 71-82 and 49-56: from the generated
\* SQL to the first remote call of executeQuery
ContinueExecute(r, sql, log) ==
  LET verdict == Gate(sql)
      i == BqInitialize(bq, env)
      log1 == log \o <<CallWith("executeQuery", [query |-> sql])>>
  IN  /\ sqlQuery' = [sqlQuery EXCEPT ![r] = sql]
      /\ IF verdict = "empty"
         THEN /\ Finish(r, log, EmptyGenerationResponse)
              /\ UNCHANGED <<bq, location, metadataCalls>>
         ELSE IF verdict = "unsafe"
         THEN /\ Finish(r, log, UnsafeQueryResponse(sql))
              /\ UNCHANGED <<bq, location, metadataCalls>>
         ELSE IF i.threw
         THEN /\ Finish(r, log1 \o <<Fail("executeQuery")>>,
                        ExecutionFailedResponse(<<i.error>>, sql))
              /\ UNCHANGED <<bq, location, metadataCalls>>
         ELSE IF HasLocation(i.svc.datasetLocation)
         THEN /\ bq' = i.svc
              /\ location' = [location EXCEPT ![r] = i.svc.datasetLocation]
              /\ pc' = [pc EXCEPT ![r] = "createQueryJob"]
              /\ calls' = [calls EXCEPT ![r] = @ \o log1 \o
                             <<CallWith("createQueryJob",
                                        [query |-> sql, location |-> i.svc.datasetLocation])>>]
              /\ UNCHANGED <<responses, metadataCalls>>
         ELSE /\ bq' = i.svc
              /\ pc' = [pc EXCEPT ![r] = "getMetadata"]
              /\ metadataCalls' = metadataCalls + 1
              /\ calls' = [calls EXCEPT ![r] = @ \o log1 \o <<Call("dataset.getMetadata")>>]
              /\ UNCHANGED <<responses, location>>

\* bigquery.js 57-58, 61-62 and 76-82: the region is cached and the query
\* job is created with it
ContinueWithLocation(r, loc, ev) ==
  /\ bq' = [bq EXCEPT !.datasetLocation = loc]
  /\ location' = [location EXCEPT ![r] = loc]
  /\ pc' = [pc EXCEPT ![r] = "createQueryJob"]
  /\ calls' = [calls EXCEPT ![r] = @ \o
                 <<ev, CallWith("createQueryJob",
                                [query |-> sqlQuery[r], location |-> loc])>>]

\* gemini.js 221-238 with gemini.js 117-130: from the rows to the
\* generateContent call of explainResults
ContinueExplain(r, rows, log) ==
  LET g == GemInitialize(gem, env)
      log1 == log \o <<OkWith("executeQuery", rows),
                       CallWith("explainResults",
                                [userQuery |-> message[r].value, sqlQuery |-> sqlQuery[r],
                                 results |-> rows])>>
  IN  /\ results' = [results EXCEPT ![r] = rows]
      /\ IF g.threw
         THEN /\ Finish(r, log1 \o <<Fail("explainResults")>>,
                        SuccessResponse(message[r], sqlQuery[r], ExplainFallback(rows), rows))
              /\ UNCHANGED gem
         ELSE /\ gem' = g.svc
              /\ pc' = [pc EXCEPT ![r] = "explainResults"]
              /\ calls' = [calls EXCEPT ![r] = @ \o log1 \o <<Call("model.generateContent")>>]
              /\ UNCHANGED responses

\* bigquery.js 104-108: the schema getTableSchema builds of a table's metadata
TableSchema(tableName, metadata) ==
  [tableName |-> tableName,
   schema |-> metadata.schema.fields,
   description |-> IF metadata.description # Unset THEN metadata.description ELSE ""]

(***************************************************************************)
(* The actions: a request arrives, or a remote call of a suspended         *)
(* request resolves or rejects.                                            *)
(***************************************************************************)
\* gemini.js 160-177 with bigquery.js 136-138 and 119-123: validation, then
\* getAllTableSchemas up to dataset.getTables
ChatReceive(r, m) ==
  /\ pc[r] = "idle"
  /\ message' = [message EXCEPT ![r] = m]
  /\ IF MessageRejected(m)
     THEN /\ Finish(r, <<>>, InvalidInputResponse)
          /\ UNCHANGED <<tableSchemas, bq, gem>>
     ELSE LET i == BqInitialize(bq, env)
          IN  IF i.threw
              THEN ContinueGenerate(r, m, <<>>,
                                    <<Call("getAllTableSchemas"), Fail("getAllTableSchemas")>>,
                                    i.svc)
              ELSE /\ bq' = i.svc
                   /\ pc' = [pc EXCEPT ![r] = "getTables"]
                   /\ calls' = [calls EXCEPT ![r] =
                                  @ \o <<Call("getAllTableSchemas"), Call("dataset.getTables")>>]
                   /\ UNCHANGED <<tableSchemas, gem, responses>>
  /\ UNCHANGED <<env, metadataCalls, fanout, sqlQuery, location, results, normVars>>

\* bigquery.js 123-125 and 139-142 (97-102 per table): the table list
\* arrives and one metadata call per table is started
GetTablesResolve(r, ts) ==
  /\ pc[r] = "getTables"
  /\ IF ts = <<>>
     THEN /\ ContinueGenerate(r, message[r], <<>>,
                              <<OkWith("dataset.getTables", ts),
                                OkWith("getAllTableSchemas", <<>>)>>, bq)
          /\ UNCHANGED fanout
     ELSE /\ fanout' = [fanout EXCEPT ![r] =
                          [tables |-> ts, got |-> [i \in 1..Len(ts) |-> <<>>]]]
          /\ pc' = [pc EXCEPT ![r] = "getTableSchemas"]
          /\ calls' = [calls EXCEPT ![r] = @ \o <<OkWith("dataset.getTables", ts)>>
                         \o [i \in 1..Len(ts) |-> CallWith("table.getMetadata", ts[i])]]
          /\ UNCHANGED <<tableSchemas, bq, gem, responses>>
  /\ UNCHANGED <<env, metadataCalls, message, sqlQuery, location, results, normVars>>

\* bigquery.js 126-129, 143-146 and gemini.js 174-177: the table list fails
GetTablesReject(r, err) ==
  /\ pc[r] = "getTables"
  /\ ContinueGenerate(r, message[r], <<>>,
                      <<Fail("dataset.getTables"), Fail("getAllTableSchemas")>>, bq)
  /\ UNCHANGED <<env, metadataCalls, message, fanout, sqlQuery, location, results, normVars>>

\* bigquery.js 102-108 and 139-142: one table's metadata arrives; when it is
\* the last one, Promise.all resolves with the schemas in table order
TableMetadataResolve(r, i, metadata) ==
  /\ pc[r] = "getTableSchemas"
  /\ i \in 1..Len(fanout[r].tables)
  /\ fanout[r].got[i] = <<>>
  /\ LET f == fanout[r]
         got == [f.got EXCEPT ![i] = <<TableSchema(f.tables[i], metadata)>>]
     IN  IF \A k \in 1..Len(got) : got[k] # <<>>
         THEN /\ fanout' = [fanout EXCEPT ![r] = NoFanout]
              /\ ContinueGenerate(r, message[r], [k \in 1..Len(got) |-> got[k][1]],
                                  <<Ok("table.getMetadata"),
                                    OkWith("getAllTableSchemas",
                                           [k \in 1..Len(got) |-> got[k][1]])>>, bq)
         ELSE /\ fanout' = [fanout EXCEPT ![r].got = got]
              /\ calls' = [calls EXCEPT ![r] = Append(@, Ok("table.getMetadata"))]
              /\ UNCHANGED <<pc, tableSchemas, bq, gem, responses>>
  /\ UNCHANGED <<env, metadataCalls, message, sqlQuery, location, results, normVars>>

\* mutant: the schemas that arrived before the failure are returned
TableMetadataRejectPartial(r, i, err) ==
  /\ pc[r] = "getTableSchemas"
  /\ i \in 1..Len(fanout[r].tables)
  /\ fanout[r].got[i] = <<>>
  /\ fanout' = [fanout EXCEPT ![r] = NoFanout]
  /\ ContinueGenerate(r, message[r], Concat(fanout[r].got),
                      <<Fail("table.getMetadata"),
                        OkWith("getAllTableSchemas", Concat(fanout[r].got))>>, bq)
  /\ UNCHANGED <<env, metadataCalls, message, sqlQuery, location, results, normVars>>

\* bigquery.js 109-112, 143-146 and gemini.js 174-177: one table's metadata
\* fails; Promise.all rejects at once and the other answers are dropped
TableMetadataReject(r, i, err) ==
  /\ pc[r] = "getTableSchemas"
  /\ i \in 1..Len(fanout[r].tables)
  /\ fanout[r].got[i] = <<>>
  /\ fanout' = [fanout EXCEPT ![r] = NoFanout]
  /\ ContinueGenerate(r, message[r], <<>>,
                      <<Fail("table.getMetadata"), Fail("getAllTableSchemas")>>, bq)
  /\ UNCHANGED <<env, metadataCalls, message, sqlQuery, location, results, normVars>>

\* gemini.js 96-103 and 191-212: the model answers the SQL prompt
GenerateResolve(r, raw) ==
  /\ pc[r] = "generateSQL"
  /\ ContinueExecute(r, CleanSql(raw),
                     <<Ok("model.generateContent"), OkWith("generateSQL", CleanSql(raw))>>)
  /\ UNCHANGED <<env, gem, message, tableSchemas, fanout, results, normVars>>

\* mutant: a failed generation is tried again
GenerateRejectRetry(r, err) ==
  /\ pc[r] = "generateSQL"
  /\ Len(calls[r]) < 20
  /\ calls' = [calls EXCEPT ![r] = @ \o
                 <<Fail("model.generateContent"), Fail("generateSQL"),
                   CallWith("generateSQL",
                            [userQuery |-> message[r].value,
                             tableSchemas |-> tableSchemas[r],
                             datasetId |-> bq.datasetId]),
                   Call("model.generateContent")>>]
  /\ UNCHANGED <<svcVars, pc, message, tableSchemas, fanout, sqlQuery, location,
                 results, responses, normVars>>

\* gemini.js 104-107 and 184-189: the SQL prompt fails
GenerateReject(r, err) ==
  /\ pc[r] = "generateSQL"
  /\ Finish(r, <<Fail("model.generateContent"), Fail("generateSQL")>>,
            GenerationFailedResponse(<<"Failed to generate SQL: ", err>>))
  /\ UNCHANGED <<svcVars, message, tableSchemas, fanout, sqlQuery, location,
                 results, normVars>>

\* bigquery.js 56-58 and 76-82: the dataset metadata arrives
LocationResolve(r, loc) ==
  /\ pc[r] = "getMetadata"
  /\ ContinueWithLocation(r, IF HasLocation(loc) THEN loc ELSE "US",
                          Ok("dataset.getMetadata"))
  /\ UNCHANGED <<env, gem, metadataCalls, message, tableSchemas, fanout, sqlQuery,
                 results, responses, normVars>>

\* bigquery.js 59-63 and 76-82: the dataset metadata call fails
LocationReject(r, err) ==
  /\ pc[r] = "getMetadata"
  /\ ContinueWithLocation(r, "US", Fail("dataset.getMetadata"))
  /\ UNCHANGED <<env, gem, metadataCalls, message, tableSchemas, fanout, sqlQuery,
                 results, responses, normVars>>

\* bigquery.js 82-83: the query job is created
CreateJobResolve(r) ==
  /\ pc[r] = "createQueryJob"
  /\ pc' = [pc EXCEPT ![r] = "getQueryResults"]
  /\ calls' = [calls EXCEPT ![r] = @ \o <<Ok("createQueryJob"), Call("job.getQueryResults")>>]
  /\ UNCHANGED <<svcVars, message, tableSchemas, fanout, sqlQuery, location,
                 results, responses, normVars>>

\* bigquery.js 86-89 and gemini.js 213-219: creating the query job fails
CreateJobReject(r, err) ==
  /\ pc[r] = "createQueryJob"
  /\ Finish(r, <<Fail("createQueryJob"), Fail("executeQuery")>>,
            ExecutionFailedResponse(<<"BigQuery execution failed: ", err>>, sqlQuery[r]))
  /\ UNCHANGED <<svcVars, message, tableSchemas, fanout, sqlQuery, location,
                 results, normVars>>

\* bigquery.js 83-85 and gemini.js 221-224: the rows arrive
QueryResultsResolve(r, rows) ==
  /\ pc[r] = "getQueryResults"
  /\ ContinueExplain(r, rows, <<Ok("job.getQueryResults")>>)
  /\ UNCHANGED <<env, bq, metadataCalls, message, tableSchemas, fanout, sqlQuery,
                 location, normVars>>

\* bigquery.js 86-89 and gemini.js 213-219: fetching the rows fails
QueryResultsReject(r, err) ==
  /\ pc[r] = "getQueryResults"
  /\ Finish(r, <<Fail("job.getQueryResults"), Fail("executeQuery")>>,
            ExecutionFailedResponse(<<"BigQuery execution failed: ", err>>, sqlQuery[r]))
  /\ UNCHANGED <<svcVars, message, tableSchemas, fanout, sqlQuery, location,
                 results, normVars>>

\* gemini.js 130-139 and 231-238: the model answers the explanation prompt
ExplainResolve(r, text) ==
  /\ pc[r] = "explainResults"
  /\ Finish(r, <<Ok("model.generateContent"), OkWith("explainResults", ExplainClean(text))>>,
            SuccessResponse(message[r], sqlQuery[r], ExplainClean(text), results[r]))
  /\ UNCHANGED <<svcVars, message, tableSchemas, fanout, sqlQuery, location,
                 results, normVars>>

\* gemini.js 140-143 and 231-238: the explanation prompt fails; explainResults
\* catches the error and returns its fixed text
ExplainReject(r, err) ==
  /\ pc[r] = "explainResults"
  /\ Finish(r, <<Fail("model.generateContent"), OkWith("explainResults", ExplainCaught)>>,
            SuccessResponse(message[r], sqlQuery[r], ExplainCaught, results[r]))
  /\ UNCHANGED <<svcVars, message, tableSchemas, fanout, sqlQuery, location,
                 results, normVars>>

\* gemini.js 160: the host hands the next request to the handler; nothing of
\* the finished request is kept, the two singletons stay as they are
NextRequest(r) ==
  /\ pc[r] = "done"
  /\ pc' = [pc EXCEPT ![r] = "idle"]
  /\ message' = [message EXCEPT ![r] = JsUndefined]
  /\ tableSchemas' = [tableSchemas EXCEPT ![r] = <<>>]
  /\ fanout' = [fanout EXCEPT ![r] = NoFanout]
  /\ sqlQuery' = [sqlQuery EXCEPT ![r] = <<>>]
  /\ location' = [location EXCEPT ![r] = Null]
  /\ results' = [results EXCEPT ![r] = <<>>]
  /\ responses' = [responses EXCEPT ![r] = <<>>]
  /\ calls' = [calls EXCEPT ![r] = <<>>]
  /\ UNCHANGED <<svcVars, normVars>>

(***************************************************************************)
(* Spec: the host serves one request after the other.                      *)
(***************************************************************************)
SerialSlots == {1}

Next ==
  \E r \in SerialSlots :
    \/ \E m \in Messages : ChatReceive(r, m)
    \/ \E ts \in TableLists : GetTablesResolve(r, ts)
    \/ \E err \in RemoteErrors : GetTablesReject(r, err)
    \/ \E i \in 1..MaxTables, md \in TableMetadata : TableMetadataResolve(r, i, md)
    \/ \E i \in 1..MaxTables, err \in RemoteErrors : TableMetadataReject(r, i, err)
    \/ \E raw \in RawTexts : GenerateResolve(r, raw)
    \/ \E err \in RemoteErrors : GenerateReject(r, err)
    \/ \E loc \in DatasetLocations : LocationResolve(r, loc)
    \/ \E err \in RemoteErrors : LocationReject(r, err)
    \/ CreateJobResolve(r)
    \/ \E err \in RemoteErrors : CreateJobReject(r, err)
    \/ \E rows \in RowSets : QueryResultsResolve(r, rows)
    \/ \E err \in RemoteErrors : QueryResultsReject(r, err)
    \/ \E text \in ExplainTexts : ExplainResolve(r, text)
    \/ \E err \in RemoteErrors : ExplainReject(r, err)
    \/ NextRequest(r)

Spec == Init /\ [][Next]_vars

(***************************************************************************)
(* SpecNorm: the normalisation of generateSQL applied to a raw text, then  *)
(* to its own output.                                                      *)
(***************************************************************************)
NormFragments ==
  { <<BackQuote>>, Fence, <<"s","q","l">>, <<"s">>, <<"\n">>, <<" ">>, <<"x">> }

\* the fenced answer of the specification's example
FencedSelect ==
  Fence \o <<"s","q","l","\n","S","E","L","E","C","T"," ","1","\n">> \o Fence

NormInputs ==
  {Concat(fs) : fs \in SeqsUpTo(NormFragments, MaxNormFrags)} \cup {FencedSelect}

NormInit ==
  /\ env = CHOOSE e \in Environments : e.BIGQUERY_LOCATION # Unset
  /\ InitServices
  /\ InitRequests
  /\ nInput \in NormInputs
  /\ nPrev = nInput
  /\ nOutput = nInput
  /\ nStage = 0

\* gemini.js 98-101 applied to the text at hand
NormApply ==
  /\ nStage < 2
  /\ nPrev' = nOutput
  /\ nOutput' = CleanSql(nOutput)
  /\ nStage' = nStage + 1
  /\ UNCHANGED <<nInput, svcVars, reqVars>>

NormNext == NormApply

SpecNorm == NormInit /\ [][NormNext]_vars

(***************************************************************************)
(* Reading the call log and the response of a request.                     *)
(***************************************************************************)
Done(r) == pc[r] = "done"

\* indices of the log entries of request r with the given operation and event
Events(r, op, ev) ==
  {i \in 1..Len(calls[r]) : calls[r][i].op = op /\ calls[r][i].ev = ev}

Called(r, op) == Events(r, op, "call") # {}
Failed(r, op) == Events(r, op, "fail") # {}
Returned(r, op) == Events(r, op, "ok") # {}

\* the only response of a finished request
TheResponse(r) == responses[r][1]

HasField(r, f) == f \in DOMAIN TheResponse(r).body

\* the text contains the keyword in any letter case
ContainsWord(text, word) ==
  \E i \in 1..Len(text) :
    /\ i + Len(word) - 1 <= Len(text)
    /\ ToUpperCase(SubSeq(text, i, i + Len(word) - 1)) = word

OnlyBlanks(text) == \A i \in 1..Len(text) : text[i] \in WhiteSpace

(***************************************************************************)
(* C1: executeQuery is invoked only with SQL that, uppercased, contains    *)
(* SELECT; a non-empty generated SQL without it ends the request with 400, *)
(* the 'Only SELECT queries' error and generatedQuery equal to the SQL,    *)
(* and neither executeQuery nor explainResults is called.                  *)
(***************************************************************************)
C1_SelectGate ==
  \A r \in Slots :
    /\ \A i \in Events(r, "executeQuery", "call") :
         ContainsWord(calls[r][i].args.query, Select)
    /\ \A i \in Events(r, "generateSQL", "ok") :
         LET sql == calls[r][i].value
         IN  (~OnlyBlanks(sql) /\ ~ContainsWord(sql, Select)) =>
               /\ Done(r)
               /\ Len(responses[r]) = 1
               /\ TheResponse(r).status = 400
               /\ TheResponse(r).body.error =
                    "Only SELECT queries are allowed for security reasons"
               /\ TheResponse(r).body.generatedQuery = sql
               /\ ~Called(r, "executeQuery")
               /\ ~Called(r, "explainResults")

C1_Witness ==
  \E r \in Slots :
    /\ Done(r)
    /\ Returned(r, "generateSQL")
    /\ sqlQuery[r] = <<"D","R","O","P"," ","T","A","B","L","E"," ","x",";">>
    /\ TheResponse(r).status = 400

(***************************************************************************)
(* C2: a message that is missing, not a string, empty or whitespace-only   *)
(* is answered with 400 and no call is made on either collaborator.        *)
(***************************************************************************)
C2_InvalidMessageShortCircuits ==
  \A r \in Slots :
    (pc[r] # "idle" /\ (message[r].type # "string" \/ OnlyBlanks(message[r].value))) =>
      /\ Done(r)
      /\ Len(responses[r]) = 1
      /\ TheResponse(r).status = 400
      /\ calls[r] = <<>>

C2_Witness ==
  \E r \in Slots :
    /\ Done(r)
    /\ message[r] = JsString(<<" ", "\n">>)
    /\ TheResponse(r).status = 400
    /\ bq._initialized

(***************************************************************************)
(* C3: when the text generation inside explainResults rejects after a      *)
(* successful query, the response is 200 with success true and the         *)
(* explanation contains the number of result rows.                         *)
(***************************************************************************)
ExplanationStepFailed(r) ==
  \E i \in Events(r, "explainResults", "call") :
    /\ i + 2 <= Len(calls[r])
    /\ calls[r][i + 2] = Fail("model.generateContent")

C3_FallbackNamesTheCount ==
  \A r \in Slots :
    (Done(r) /\ ExplanationStepFailed(r)) =>
      /\ TheResponse(r).status = 200
      /\ TheResponse(r).body.success = TRUE
      /\ Includes(TheResponse(r).body.explanation,
                  DecimalString(Len(TheResponse(r).body.results)))

(***************************************************************************)
(* C4: whenever getAllTableSchemas fails, for whatever cause, the handler  *)
(* still invokes generateSQL, with an empty schema list.                   *)
(***************************************************************************)
C4_SchemaFailureStillGenerates ==
  \A r \in Slots :
    Failed(r, "getAllTableSchemas") =>
      \E i \in Events(r, "generateSQL", "call") : calls[r][i].args.tableSchemas = <<>>

(***************************************************************************)
(* C5: a failing generateSQL ends the request with 500 'Failed to generate *)
(* SQL query' and details, without executeQuery or explainResults; a       *)
(* failing executeQuery ends it with 500 'Failed to execute query on       *)
(* BigQuery', details and generatedQuery equal to the attempted SQL,       *)
(* without explainResults.                                                 *)
(***************************************************************************)
C5_CriticalFailuresAbort ==
  \A r \in Slots :
    /\ Failed(r, "generateSQL") =>
         /\ Done(r)
         /\ Len(responses[r]) = 1
         /\ TheResponse(r).status = 500
         /\ TheResponse(r).body.error = "Failed to generate SQL query"
         /\ HasField(r, "details")
         /\ ~Called(r, "executeQuery")
         /\ ~Called(r, "explainResults")
    /\ Failed(r, "executeQuery") =>
         /\ Done(r)
         /\ Len(responses[r]) = 1
         /\ TheResponse(r).status = 500
         /\ TheResponse(r).body.error = "Failed to execute query on BigQuery"
         /\ HasField(r, "details")
         /\ HasField(r, "generatedQuery")
         /\ \A i \in Events(r, "executeQuery", "call") :
              TheResponse(r).body.generatedQuery = calls[r][i].args.query
         /\ ~Called(r, "explainResults")

C5_Witness ==
  \E r \in Slots :
    /\ Done(r)
    /\ Failed(r, "executeQuery")
    /\ Failed(r, "job.getQueryResults")
    /\ TheResponse(r).body.generatedQuery = <<"S","e","l","e","c","t"," ","1">>

(***************************************************************************)
(* C6: no SQL that contains a data-modifying statement (DROP, DELETE,      *)
(* INSERT) is ever passed to executeQuery.                                 *)
(***************************************************************************)
ModifyingWords ==
  { <<"D","R","O","P">>, <<"D","E","L","E","T","E">>, <<"I","N","S","E","R","T">> }

C6_NoModifyingStatementExecuted ==
  \A r \in Slots :
    \A i \in Events(r, "executeQuery", "call") :
      \A w \in ModifyingWords : ~ContainsWord(calls[r][i].args.query, w)

(***************************************************************************)
(* C7: in every success response resultCount is the number of rows in      *)
(* results, results is the row sequence executeQuery returned, sqlQuery is *)
(* the string generateSQL returned and the one passed to executeQuery, and *)
(* userQuery is the request's message unchanged.                           *)
(***************************************************************************)
C7_SuccessPayload ==
  \A r \in Slots :
    (Done(r) /\ TheResponse(r).status = 200) =>
      LET body == TheResponse(r).body
      IN  /\ body.success = TRUE
          /\ body.resultCount = Len(body.results)
          /\ \A i \in Events(r, "executeQuery", "ok") : body.results = calls[r][i].value
          /\ Returned(r, "executeQuery")
          /\ \A i \in Events(r, "generateSQL", "ok") : body.sqlQuery = calls[r][i].value
          /\ Returned(r, "generateSQL")
          /\ \A i \in Events(r, "executeQuery", "call") : body.sqlQuery = calls[r][i].args.query
          /\ body.userQuery = message[r].value

C7_Witness ==
  \E r \in Slots :
    /\ Done(r)
    /\ TheResponse(r).status = 200
    /\ TheResponse(r).body.resultCount = 2
    /\ TheResponse(r).body.results = <<[cnt |-> 42], [cnt |-> 43]>>
    /\ TheResponse(r).body.userQuery = <<" ", "h", "i", " ">>

(***************************************************************************)
(* C8: a generated SQL that is empty after trimming ends the request with  *)
(* 500 'Generated SQL query is empty', not with the 400 rejection, and     *)
(* executeQuery and explainResults are never called.                       *)
(***************************************************************************)
C8_EmptyGeneration ==
  \A r \in Slots :
    \A i \in Events(r, "generateSQL", "ok") :
      OnlyBlanks(calls[r][i].value) =>
        /\ Done(r)
        /\ Len(responses[r]) = 1
        /\ TheResponse(r).status = 500
        /\ TheResponse(r).body.error = "Generated SQL query is empty"
        /\ ~Called(r, "executeQuery")
        /\ ~Called(r, "explainResults")

C8_Witness ==
  \E r \in Slots :
    /\ Done(r)
    /\ Returned(r, "generateSQL")
    /\ sqlQuery[r] = <<>>
    /\ TheResponse(r).status = 500

(***************************************************************************)
(* C9: the normalisation of generateSQL maps the fenced text of the        *)
(* example to SELECT 1, and applying it to its own output changes nothing. *)
(***************************************************************************)
C9_NormalizeIdempotent ==
  /\ (nStage = 2) => (nOutput = nPrev)
  /\ (nStage >= 1 /\ nInput = FencedSelect) =>
       nOutput = <<"S","E","L","E","C","T"," ","1">>

C9_Witness ==
  /\ nStage = 2
  /\ nInput = <<"x">> \o Fence \o <<"s","q","l","\n">>
  /\ nPrev = <<"x">>
  /\ nOutput = <<"x">>

(***************************************************************************)
(* C10: within a request the four operations run in the order              *)
(* getAllTableSchemas, generateSQL, executeQuery, explainResults, each at  *)
(* most once and each only after the one before has resolved or rejected;  *)
(* executeQuery and explainResults start only after a success of the one   *)
(* before, and a failed operation is not invoked again.                    *)
(***************************************************************************)
Pipeline == <<"getAllTableSchemas", "generateSQL", "executeQuery", "explainResults">>

Rank(op) == CHOOSE k \in 1..Len(Pipeline) : Pipeline[k] = op

IsPipelineEvent(e) == \E k \in 1..Len(Pipeline) : Pipeline[k] = e.op

\* the log of request r cut down to the four operations
PipelineLog(r) == SelectSeq(calls[r], IsPipelineEvent)

C10_PipelineOrder ==
  \A r \in Slots :
    LET t == PipelineLog(r)
    IN  \A i \in 1..Len(t) :
          IF i % 2 = 1
          THEN /\ t[i].ev = "call"
               /\ t[i].op = Pipeline[(i + 1) \div 2]
               /\ \A j \in 1..(i - 1) : t[j].op # t[i].op
               /\ Rank(t[i].op) >= 3 => t[i - 1].ev = "ok"
          ELSE /\ t[i].ev \in {"ok", "fail"}
               /\ t[i].op = t[i - 1].op

C10_Witness ==
  \E r \in Slots :
    /\ Done(r)
    /\ Len(PipelineLog(r)) = 8
    /\ Failed(r, "getAllTableSchemas")

(***************************************************************************)
(* SpecConc: the host serves the requests of all slots at the same time.   *)
(* Every request is valid, its schema step finds no tables or fails, the   *)
(* model answers one SELECT, and the query runs up to its rows.            *)
(***************************************************************************)
\* the environments with every required variable set
ConcEnvironments ==
  {e \in Environments :
     /\ e.BIGQUERY_PROJECT_ID # Unset
     /\ e.BIGQUERY_DATASET # Unset
     /\ e.GEMINI_API_KEY # Unset}

ConcMessages == {JsString(<<" ", "h", "i", " ">>)}

ConcTexts == {FragSelect}

\* the dataset has one region, the same in every answer of dataset.getMetadata
ConcLocations == {"EU"}

ConcInit ==
  /\ env \in ConcEnvironments
  /\ InitServices
  /\ InitRequests
  /\ InitNorm

ConcNext ==
  \E r \in Slots :
    \/ \E m \in ConcMessages : ChatReceive(r, m)
    \/ GetTablesResolve(r, <<>>)
    \/ \E err \in RemoteErrors : GetTablesReject(r, err)
    \/ \E raw \in ConcTexts : GenerateResolve(r, raw)
    \/ \E loc \in ConcLocations : LocationResolve(r, loc)
    \/ \E err \in RemoteErrors : LocationReject(r, err)
    \/ CreateJobResolve(r)
    \/ \E err \in RemoteErrors : QueryResultsReject(r, err)
    \/ NextRequest(r)

SpecConc == ConcInit /\ [][ConcNext]_vars

(***************************************************************************)
(* C11: dataset.getMetadata is called at most once in the life of the      *)
(* process under every interleaving of concurrent requests, never when     *)
(* BIGQUERY_LOCATION is configured, and when it fails the region of the    *)
(* query is 'US'.                                                          *)
(***************************************************************************)
C11_MetadataFetchedOnce ==
  /\ metadataCalls <= 1
  /\ env.BIGQUERY_LOCATION # Unset => metadataCalls = 0
  /\ \A r \in Slots : Failed(r, "dataset.getMetadata") => location[r] = "US"

(***************************************************************************)
(* C12: once BigQueryService.datasetLocation is not null it never changes, *)
(* and all executeQuery calls run their query with the same region, under  *)
(* every interleaving of concurrent requests.                              *)
(***************************************************************************)
C12_RegionNeverChanges ==
  /\ [][bq.datasetLocation # Null => bq'.datasetLocation = bq.datasetLocation]_vars
  /\ [](\A r1, r2 \in Slots :
          \A i \in Events(r1, "createQueryJob", "call") :
            \A j \in Events(r2, "createQueryJob", "call") :
              calls[r1][i].args.location = calls[r2][j].args.location)

(***************************************************************************)
(* SpecSchemas: the schema step of the handler with several tables, whose  *)
(* metadata calls answer in any order; the request then ends with a failed *)
(* generation.                                                             *)
(***************************************************************************)
\* dataset.getTables answers any list of distinct tables, up to MaxFanout
FanoutLists ==
  {ts \in SeqsUpTo(1..MaxFanout, MaxFanout) :
     \A i, j \in 1..Len(ts) : i # j => ts[i] # ts[j]}

SchemasNext ==
  \E r \in SerialSlots :
    \/ \E m \in ConcMessages : ChatReceive(r, m)
    \/ \E ts \in FanoutLists : GetTablesResolve(r, ts)
    \/ \E err \in RemoteErrors : GetTablesReject(r, err)
    \/ \E i \in 1..MaxFanout, md \in TableMetadata : TableMetadataResolve(r, i, md)
    \/ \E i \in 1..MaxFanout, err \in RemoteErrors : TableMetadataReject(r, i, err)
    \/ \E err \in RemoteErrors : GenerateReject(r, err)
    \/ NextRequest(r)

SpecSchemas == Init /\ [][SchemasNext]_vars

(***************************************************************************)
(* C13: getAllTableSchemas is all-or-nothing: when getTables or one        *)
(* getTableSchema fails the whole call fails and nothing is returned; when *)
(* it succeeds it returns one schema per table of the table list, in the   *)
(* order of the list, whatever the order the metadata calls answer in.     *)
(***************************************************************************)
C13_SchemasAllOrNothing ==
  \A r \in Slots :
    /\ (Failed(r, "dataset.getTables") \/ Failed(r, "table.getMetadata")) =>
         /\ Failed(r, "getAllTableSchemas")
         /\ ~Returned(r, "getAllTableSchemas")
         /\ tableSchemas[r] = <<>>
    /\ pc[r] \in {"getTables", "getTableSchemas"} =>
         /\ ~Returned(r, "getAllTableSchemas")
         /\ ~Failed(r, "getAllTableSchemas")
    /\ \A i \in Events(r, "getAllTableSchemas", "ok") :
         LET out == calls[r][i].value
         IN  /\ tableSchemas[r] = out
             /\ Returned(r, "dataset.getTables")
             /\ \A j \in Events(r, "dataset.getTables", "ok") :
                  LET ts == calls[r][j].value
                  IN  /\ Len(out) = Len(ts)
                      /\ \A k \in 1..Len(ts) : out[k].tableName = ts[k]

\* the second table of the list 2, 1 answered first
C13_Witness ==
  \E r \in Slots :
    /\ Returned(r, "getAllTableSchemas")
    /\ Len(tableSchemas[r]) = 2
    /\ tableSchemas[r][1].tableName = 2
    /\ tableSchemas[r][2].tableName = 1

(***************************************************************************)
(* SpecLive: the handler under the assumption that every external call in  *)
(* flight is eventually answered, by a result or by an error.  Whether a   *)
(* request arrives, and whether another follows it, is left to the client. *)
(***************************************************************************)
\* generated texts, one per outcome of the checks on the generated SQL:
\* empty, not a SELECT, a SELECT
LiveTexts == {<<>>, FragDrop, FragSelect}

\* query results: no row, one row
LiveRows == {<<>>, <<[cnt |-> 42]>>}

\* the answer, of either kind, to the external call request r is waiting on
ExternalCallSettles(r) ==
  \/ \E ts \in TableLists : GetTablesResolve(r, ts)
  \/ \E err \in RemoteErrors : GetTablesReject(r, err)
  \/ \E i \in 1..MaxTables, md \in TableMetadata : TableMetadataResolve(r, i, md)
  \/ \E i \in 1..MaxTables, err \in RemoteErrors : TableMetadataReject(r, i, err)
  \/ \E raw \in LiveTexts : GenerateResolve(r, raw)
  \/ \E err \in RemoteErrors : GenerateReject(r, err)
  \/ \E loc \in DatasetLocations : LocationResolve(r, loc)
  \/ \E err \in RemoteErrors : LocationReject(r, err)
  \/ CreateJobResolve(r)
  \/ \E err \in RemoteErrors : CreateJobReject(r, err)
  \/ \E rows \in LiveRows : QueryResultsResolve(r, rows)
  \/ \E err \in RemoteErrors : QueryResultsReject(r, err)
  \/ \E text \in ExplainTexts : ExplainResolve(r, text)
  \/ \E err \in RemoteErrors : ExplainReject(r, err)

LiveNext ==
  \E r \in SerialSlots :
    \/ \E m \in Messages : ChatReceive(r, m)
    \/ ExternalCallSettles(r)
    \/ NextRequest(r)

Fairness == \A r \in SerialSlots : WF_vars(ExternalCallSettles(r))

SpecLive == Init /\ [][LiveNext]_vars /\ Fairness

\* request r has been received and not answered yet
InFlight(r) == pc[r] \notin {"idle", "done"}

\* the responses sent so far for request r: at most one, one once the handler
\* has returned, with a status and the fields that go with it
ResponseShape(r) ==
  /\ Len(responses[r]) <= 1
  /\ Done(r) <=> Len(responses[r]) = 1
  /\ \A i \in 1..Len(responses[r]) :
       LET resp == responses[r][i]
       IN  /\ resp.status \in {200, 400, 500}
           /\ resp.status \in {400, 500} => "error" \in DOMAIN resp.body
           /\ resp.status = 200 <=>
                /\ "success" \in DOMAIN resp.body
                /\ resp.body.success = TRUE

(***************************************************************************)
(* C14: when every external call is eventually answered, every request     *)
(* received gets a response, and it gets exactly one: never two, and none  *)
(* only while it is in flight.  The status is 200, 400 or 500; a 400 or    *)
(* 500 carries an error field and only a 200 carries success true.         *)
(***************************************************************************)
C14_ExactlyOneResponse ==
  /\ [](\A r \in Slots : ResponseShape(r))
  /\ \A r \in Slots : InFlight(r) ~> Done(r)

\* a request that went through every external call and was answered 200
C14_Witness ==
  \E r \in Slots :
    /\ Done(r)
    /\ Returned(r, "explainResults")
    /\ Len(responses[r]) = 1
    /\ TheResponse(r).status = 200

====
